---- MODULE Spec2Model ----
(***************************************************************************)
(* Authentication and authorization core of teamdeck-tracker-api:          *)
(* Google login (code exchange, identity check, directory lookup, token    *)
(* issuance), JWT encode / decode of access and refresh tokens, and the    *)
(* per-request bearer verification with the field guard.                   *)
(*                                                                         *)
(* Every handler invocation (index) is one action; the wall clock advances  *)
(* between invocations.  resp is the response most recently returned.      *)
(***************************************************************************)
EXTENDS Integers, Sequences, FiniteSets, TLC

VARIABLES now, accessSecret, refreshSecret, issued, resp,
          op, trav, timers, started

vars == <<now, accessSecret, refreshSecret, issued, resp,
         op, trav, timers, started>>

-----------------------------------------------------------------------------
(* Bounds of the model *)

\* the instants at which handlers run: the first second, and from one second
\* before to MaxExtra seconds after ACCESS_TTL
MaxExtra == 1
\* number of token responses kept by clients
MaxIssued == 1

\* the largest page count the upstream API reports
MaxPagesCount == 2

\* the last page a traversal is followed to
MaxPage == 4

\* the most timers the store is followed to
MaxTimers == 3

-----------------------------------------------------------------------------
(* Option values *)

None == [tag |-> "None"]
Some(v) == [tag |-> "Some", val |-> v]

Ok(v) == [tag |-> "Ok", val |-> v]
Err(e) == [tag |-> "Err", err |-> e]

-----------------------------------------------------------------------------
(* auth/token.rs *)

\* AccessToken::expiration_time: 7 days
ACCESS_TTL == 60 * 60 * 24 * 7

\* Validation::default() of the JWT library: no leeway, exp validated
LEEWAY == 0

MaxTime == ACCESS_TTL + MaxExtra
Instants == {0} \cup ((ACCESS_TTL - 1)..MaxTime)

Emails == {"a@moodup.team", "x@evil.com"}
ResourceIds == {42, 7}
Secrets == {"k1", "k2"}
\* the two secrets are equal or differ; the access secret's name is fixed
AccessSecrets == {"k1"}
Kinds == {"Access", "Refresh"}

\* Token::secret for the two kinds, read from the environment at each call
secret(kind) == IF kind = "Access" THEN accessSecret ELSE refreshSecret

\* std::time::Duration: whole seconds and the nanoseconds of the second
NANOS_PER_SEC == 1000000000

\* Duration::from_secs
from_secs(secs) == [secs |-> secs, nanos |-> 0]

\* Duration::as_secs: the whole seconds, the sub-second part is dropped
as_secs(d) == d.secs

\* Duration + Duration
DurationAdd(a, b) ==
    IF a.nanos + b.nanos >= NANOS_PER_SEC
    THEN [secs |-> a.secs + b.secs + 1,
          nanos |-> a.nanos + b.nanos - NANOS_PER_SEC]
    ELSE [secs |-> a.secs + b.secs, nanos |-> a.nanos + b.nanos]

\* sub-second parts of the wall clock at the time of a call
SubsecNanos == {0, NANOS_PER_SEC - 1}

\* SystemTime::now().duration_since(UNIX_EPOCH), at second t
duration_since_epoch(t, nanos) == [secs |-> t, nanos |-> nanos]

\* Token::expiration_time
expiration_time(kind) ==
    IF kind = "Access" THEN Some(from_secs(ACCESS_TTL)) ELSE None

\* serde serialization of Claims: exp is skipped when it is None
Serialize(claims) ==
    IF claims.exp = None
    THEN [sub |-> claims.sub, iat |-> claims.iat,
          resource_id |-> claims.resource_id]
    ELSE [sub |-> claims.sub, iat |-> claims.iat, exp |-> claims.exp.val,
          resource_id |-> claims.resource_id]

\* serde deserialization of Claims: a missing exp becomes None
Deserialize(payload) ==
    [sub |-> payload.sub, iat |-> payload.iat,
     exp |-> IF "exp" \in DOMAIN payload THEN Some(payload.exp) ELSE None,
     resource_id |-> payload.resource_id]

\* HMAC of the serialized claims under a key
Sign(key, payload) == [key |-> key, msg |-> payload]

\* variant of encode_claims: both kinds are signed with the access secret
encode_claimsMutOneSecret(kind, claims, encOk) ==
    IF encOk
    THEN Ok([kind |-> "jwt", alg |-> "HS256", payload |-> Serialize(claims),
             sig |-> Sign(secret("Access"), Serialize(claims))])
    ELSE Err([error |-> "EncodingError"])

\* Token::encode_claims; encOk is whether the library's encode succeeds
encode_claims(kind, claims, encOk) ==
    IF encOk
    THEN Ok([kind |-> "jwt", alg |-> "HS256", payload |-> Serialize(claims),
             sig |-> Sign(secret(kind), Serialize(claims))])
    ELSE Err([error |-> "EncodingError"])

\* variant of JwtValidate: a leeway of 60 seconds
JwtValidateMutLeeway(payload, t) ==
    IF "exp" \in DOMAIN payload
    THEN IF payload.exp < t - 60 THEN Err("ExpiredSignature") ELSE Ok(TRUE)
    ELSE Err("ExpiredSignature")

\* the library's claim validation under Validation::default(): exp is
\* required, and the token is expired when exp < now - leeway
JwtValidate(payload, t) ==
    IF "exp" \in DOMAIN payload
    THEN IF payload.exp < t - LEEWAY THEN Err("ExpiredSignature") ELSE Ok(TRUE)
    ELSE Err("ExpiredSignature")

\* variant of JwtDecode: the signature is not checked
JwtDecodeMutNoSig(tok, key, t) ==
    IF tok.kind # "jwt" THEN Err("InvalidToken")
    ELSE IF tok.alg # "HS256" THEN Err("InvalidAlgorithm")
    ELSE IF JwtValidate(tok.payload, t).tag = "Err"
         THEN JwtValidate(tok.payload, t)
    ELSE Ok(Deserialize(tok.payload))

\* the library's decode: format, algorithm, signature, then the claims
JwtDecode(tok, key, t) ==
    IF tok.kind # "jwt" THEN Err("InvalidToken")
    ELSE IF tok.alg # "HS256" THEN Err("InvalidAlgorithm")
    ELSE IF tok.sig # Sign(key, tok.payload) THEN Err("InvalidSignature")
    ELSE IF JwtValidate(tok.payload, t).tag = "Err"
         THEN JwtValidate(tok.payload, t)
    ELSE Ok(Deserialize(tok.payload))

\* Token::decode_claims at wall-clock time t
decode_claims(kind, tok, t) ==
    LET r == JwtDecode(tok, secret(kind), t)
    IN  IF r.tag = "Err"
        THEN Err([error |-> "DecodingError", source |-> r.err])
        ELSE r

\* AccessToken::verify
AccessToken_verify(tok, t) == decode_claims("Access", tok, t)

\* AccessToken::resource_id
resource_id(claims) == claims.resource_id

\* variant of with_user_data: exp is the issue time, the TTL is not added
with_user_dataMutNoTtl(email, rid, t, encOkA, encOkR) ==
    LET access_token_claims ==
            [sub |-> email, iat |-> as_secs(t), exp |-> Some(as_secs(t)),
             resource_id |-> rid]
        refresh_token_claims == [access_token_claims EXCEPT !.exp = None]
        access_token == encode_claims("Access", access_token_claims, encOkA)
        refresh_token == encode_claims("Refresh", refresh_token_claims, encOkR)
    IN  IF access_token.tag = "Err" THEN access_token
        ELSE IF refresh_token.tag = "Err" THEN refresh_token
        ELSE Ok([access_token |-> access_token.val,
                 refresh_token |-> refresh_token.val,
                 expires_in |-> ACCESS_TTL])

\* variant of with_user_data: iat is rounded up to the next whole second
with_user_dataMutCeilIat(email, rid, t, encOkA, encOkR) ==
    LET issued_at == t
        ttl == expiration_time("Access")
        expires_in == IF ttl.tag = "Some" THEN ttl.val ELSE from_secs(0)
        access_token_claims ==
            [sub |-> email,
             iat |-> IF issued_at.nanos > 0 THEN as_secs(issued_at) + 1
                     ELSE as_secs(issued_at),
             exp |-> Some(as_secs(DurationAdd(issued_at, expires_in))),
             resource_id |-> rid]
        refresh_token_claims == [access_token_claims EXCEPT !.exp = None]
        access_token == encode_claims("Access", access_token_claims, encOkA)
        refresh_token == encode_claims("Refresh", refresh_token_claims, encOkR)
    IN  IF access_token.tag = "Err" THEN access_token
        ELSE IF refresh_token.tag = "Err" THEN refresh_token
        ELSE Ok([access_token |-> access_token.val,
                 refresh_token |-> refresh_token.val,
                 expires_in |-> as_secs(expires_in)])

\* variant of with_user_data: a failed refresh encode leaves the refresh
\* token out of the response
with_user_dataMutPartial(email, rid, t, encOkA, encOkR) ==
    LET issued_at == t
        ttl == expiration_time("Access")
        expires_in == IF ttl.tag = "Some" THEN ttl.val ELSE from_secs(0)
        access_token_claims ==
            [sub |-> email, iat |-> as_secs(issued_at),
             exp |-> Some(as_secs(DurationAdd(issued_at, expires_in))),
             resource_id |-> rid]
        refresh_token_claims == [access_token_claims EXCEPT !.exp = None]
        access_token == encode_claims("Access", access_token_claims, encOkA)
        refresh_token == encode_claims("Refresh", refresh_token_claims, encOkR)
    IN  IF access_token.tag = "Err" THEN access_token
        ELSE Ok([access_token |-> access_token.val,
                 refresh_token |-> IF refresh_token.tag = "Err"
                                   THEN [kind |-> "word", text |-> ""]
                                   ELSE refresh_token.val,
                 expires_in |-> as_secs(expires_in)])

\* TokenResponse::with_user_data when the wall clock reads t (a Duration
\* since the epoch)
with_user_data(email, rid, t, encOkA, encOkR) ==
    LET issued_at == t
        ttl == expiration_time("Access")
        \* unwrap_or_default
        expires_in == IF ttl.tag = "Some" THEN ttl.val ELSE from_secs(0)
        access_token_claims ==
            [sub |-> email, iat |-> as_secs(issued_at),
             exp |-> Some(as_secs(DurationAdd(issued_at, expires_in))),
             resource_id |-> rid]
        refresh_token_claims == [access_token_claims EXCEPT !.exp = None]
        access_token == encode_claims("Access", access_token_claims, encOkA)
        refresh_token == encode_claims("Refresh", refresh_token_claims, encOkR)
    IN  IF access_token.tag = "Err" THEN access_token
        ELSE IF refresh_token.tag = "Err" THEN refresh_token
        ELSE Ok([access_token |-> access_token.val,
                 refresh_token |-> refresh_token.val,
                 expires_in |-> as_secs(expires_in)])

-----------------------------------------------------------------------------
(* auth/google.rs *)

EXPECTED_DOMAIN == "moodup.team"
Domains == {"moodup.team", "evil.com"}

\* id_token values the provider's response can carry
MalformedIdToken == [kind |-> "word", text |-> "garbage"]
IdTokens ==
    {MalformedIdToken} \cup
    {[kind |-> "jwt",
      payload |-> [email |-> e, email_verified |-> v, hd |-> d]] :
        e \in Emails, v \in BOOLEAN, d \in Domains}

\* jsonwebtoken::dangerous_insecure_decode::<GoogleIdTokenClaims>
dangerous_insecure_decode(id_token) ==
    IF id_token.kind # "jwt" THEN Err("InvalidToken")
    ELSE Ok([email |-> id_token.payload.email,
             email_verified |-> id_token.payload.email_verified,
             domain |-> id_token.payload.hd])

\* variant of email: the domain is checked before the verified flag
emailMutDomainFirst(response) ==
    IF response.id_token = None THEN Err([error |-> "IdTokenMissing"])
    ELSE LET token_data == dangerous_insecure_decode(response.id_token.val)
         IN  IF token_data.tag = "Err"
             THEN Err([error |-> "TokenDecodeError", source |-> token_data.err])
             ELSE LET claims == token_data.val
                  IN  IF claims.domain # EXPECTED_DOMAIN
                      THEN Err([error |-> "InvalidDomain",
                                expected |-> EXPECTED_DOMAIN,
                                found |-> claims.domain])
                      ELSE IF ~claims.email_verified
                      THEN Err([error |-> "EmailNotVerified",
                                email |-> claims.email])
                      ELSE Ok(claims.email)

\* variant of email: found is the email instead of the domain
emailMutFoundEmail(response) ==
    IF response.id_token = None THEN Err([error |-> "IdTokenMissing"])
    ELSE LET token_data == dangerous_insecure_decode(response.id_token.val)
         IN  IF token_data.tag = "Err"
             THEN Err([error |-> "TokenDecodeError", source |-> token_data.err])
             ELSE LET claims == token_data.val
                  IN  IF ~claims.email_verified
                      THEN Err([error |-> "EmailNotVerified",
                                email |-> claims.email])
                      ELSE IF claims.domain # EXPECTED_DOMAIN
                      THEN Err([error |-> "InvalidDomain",
                                expected |-> EXPECTED_DOMAIN,
                                found |-> claims.email])
                      ELSE Ok(claims.email)

\* variant of email: a missing id_token is decoded as an empty string
emailMutMissingDecoded(response) ==
    LET id_token == IF response.id_token = None
                    THEN [kind |-> "word", text |-> ""]
                    ELSE response.id_token.val
        token_data == dangerous_insecure_decode(id_token)
    IN  IF token_data.tag = "Err"
        THEN Err([error |-> "TokenDecodeError", source |-> token_data.err])
        ELSE LET claims == token_data.val
             IN  IF ~claims.email_verified
                 THEN Err([error |-> "EmailNotVerified",
                           email |-> claims.email])
                 ELSE IF claims.domain # EXPECTED_DOMAIN
                 THEN Err([error |-> "InvalidDomain",
                           expected |-> EXPECTED_DOMAIN,
                           found |-> claims.domain])
                 ELSE Ok(claims.email)

\* GoogleTokenResponse::email
email(response) ==
    IF response.id_token = None THEN Err([error |-> "IdTokenMissing"])
    ELSE LET token_data == dangerous_insecure_decode(response.id_token.val)
         IN  IF token_data.tag = "Err"
             THEN Err([error |-> "TokenDecodeError", source |-> token_data.err])
             ELSE LET claims == token_data.val
                  IN  IF ~claims.email_verified
                      THEN Err([error |-> "EmailNotVerified",
                                email |-> claims.email])
                      ELSE IF claims.domain # EXPECTED_DOMAIN
                      THEN Err([error |-> "InvalidDomain",
                                expected |-> EXPECTED_DOMAIN,
                                found |-> claims.domain])
                      ELSE Ok(claims.email)

\* outcomes of GoogleOAuth2::exchange_code_for_token
ExchangeResults ==
    {Err([error |-> "Transport"]), Err([error |-> "Decode"]),
     Ok([id_token |-> None])} \cup
    {Ok([id_token |-> Some(t)]) : t \in IdTokens}

-----------------------------------------------------------------------------
(* teamdeck/api.rs *)

\* bodies the upstream API can return for /resources?email=...
ResourceLists ==
    {<< >>} \cup {<<[id |-> i]>> : i \in ResourceIds} \cup
    {l \in {<<[id |-> i], [id |-> j]>> : i \in ResourceIds, j \in ResourceIds} :
        l[1] # l[2]}

\* TeamdeckApiClient::get_resource_by_email, given the upstream's answer
get_resource_by_email(answer) ==
    IF answer.tag = "Err" THEN Err([error |-> "ServerError"])
    ELSE LET resources == answer.val
         IN  IF Len(resources) = 0 THEN Ok(None) ELSE Ok(Some(resources[1]))

DirectoryAnswers == {Err("transport")} \cup {Ok(l) : l \in ResourceLists}

-----------------------------------------------------------------------------
(* auth/guard.rs and main.rs *)

EmptyCtx == [AccessToken |-> None, ResourceId |-> None]

\* Request::data
data(ctx, type, v) == [ctx EXCEPT ![type] = Some(v)]

\* Context::data_opt
data_opt(ctx, type) == ctx[type]

\* AuthError::InvalidAccessToken
AuthError == [error |-> "InvalidAccessToken"]

\* AccessTokenAuthGuard::check
check(ctx) ==
    IF data_opt(ctx, "AccessToken").tag = "Some"
       /\ data_opt(ctx, "ResourceId").tag = "Some"
    THEN Ok(TRUE)
    ELSE Err(AuthError)

BearerWord == [kind |-> "word", text |-> "Bearer"]
GarbageWord == [kind |-> "word", text |-> "garbage"]
BasicWord == [kind |-> "word", text |-> "Basic"]

\* variant of get_token: only a two-word header with the Bearer scheme counts
get_tokenMutBearer(header) ==
    IF header.tag = "Some"
    THEN LET contents == IF header.val.ascii THEN header.val.words ELSE << >>
         IN  IF Len(contents) = 2 /\ contents[1] = BearerWord
             THEN Some(contents[2])
             ELSE None
    ELSE None

\* get_token: the last whitespace-separated word of the Authorization header
get_token(header) ==
    IF header.tag = "Some"
    THEN LET contents == IF header.val.ascii THEN header.val.words ELSE << >>
         IN  IF Len(contents) = 0 THEN None
             ELSE Some(contents[Len(contents)])
    ELSE None

\* variant of index_ctx: the claims are attached without verification
index_ctxMutInsecure(header, t) ==
    LET auth_token == get_token(header)
    IN  IF auth_token.tag = "Some" /\ auth_token.val.kind = "jwt"
        THEN data(data(EmptyCtx, "AccessToken",
                       Deserialize(auth_token.val.payload)),
                  "ResourceId", auth_token.val.payload.resource_id)
        ELSE EmptyCtx

\* variant of index_ctx: the resource id is not attached
index_ctxMutTokenOnly(header, t) ==
    LET auth_token == get_token(header)
        access_token ==
            IF auth_token.tag = "Some"
            THEN LET v == AccessToken_verify(auth_token.val, t)
                 IN  IF v.tag = "Ok" THEN Some(v.val) ELSE None
            ELSE None
    IN  IF access_token.tag = "Some"
        THEN data(EmptyCtx, "AccessToken", access_token.val)
        ELSE EmptyCtx

\* index, up to schema.execute: the context the query is executed with
index_ctx(header, t) ==
    LET auth_token == get_token(header)
        access_token ==
            IF auth_token.tag = "Some"
            THEN LET v == AccessToken_verify(auth_token.val, t)
                 IN  IF v.tag = "Ok" THEN Some(v.val) ELSE None
            ELSE None
    IN  IF access_token.tag = "Some"
        THEN data(data(EmptyCtx, "AccessToken", access_token.val),
                  "ResourceId", resource_id(access_token.val))
        ELSE EmptyCtx

\* why the bearer credential of a request did not verify
FailureCause(header, t) ==
    IF header.tag = "None" THEN "no_header"
    ELSE IF get_token(header).tag = "None" THEN "no_token"
    ELSE LET v == AccessToken_verify(get_token(header).val, t)
         IN  IF v.tag = "Ok" THEN "verified" ELSE v.err.source

-----------------------------------------------------------------------------
(* The GraphQL schema: lib.rs, resource.rs, time_entry.rs, project.rs *)

\* fields carrying #[graphql(guard = "AccessTokenAuthGuard::default()")]
GuardedFields == {"me", "timeEntries", "createTimeEntry", "updateTimeEntry"}
QueryFields == {"me", "timeEntries", "googleAuthUrl", "resources", "projects"}
MutationFields == {"createTimeEntry", "updateTimeEntry"}

\* selections of a request: a whole operation, a guarded field alone, a
\* public field alone
Selections == {QueryFields, MutationFields, {"me"}, {"googleAuthUrl"}}

\* variant of resolve_field: the resource id is taken from the arguments
resolve_fieldMutArg(f, ctx, arg) ==
    IF f \in GuardedFields
    THEN IF check(ctx).tag = "Err"
         THEN [ran |-> FALSE, outcome |-> check(ctx), upstream |-> None]
         ELSE [ran |-> TRUE, outcome |-> Ok("resolved"), upstream |-> Some(arg)]
    ELSE [ran |-> TRUE, outcome |-> Ok("resolved"), upstream |-> None]

\* variant of resolve_field: every field is guarded
resolve_fieldMutGuardAll(f, ctx, arg) ==
    IF check(ctx).tag = "Err"
    THEN [ran |-> FALSE, outcome |-> check(ctx), upstream |-> None]
    ELSE [ran |-> TRUE, outcome |-> Ok("resolved"),
          upstream |-> IF f \in GuardedFields
                       THEN Some(data_opt(ctx, "ResourceId").val) ELSE None]

\* one root field other than loginWithGoogle: the guard, then the resolver's
\* body.  arg is a resource id supplied by the client in the arguments
resolve_field(f, ctx, arg) ==
    IF f \in GuardedFields
    THEN IF check(ctx).tag = "Err"
         THEN [ran |-> FALSE, outcome |-> check(ctx), upstream |-> None]
         ELSE [ran |-> TRUE, outcome |-> Ok("resolved"),
               upstream |-> Some(data_opt(ctx, "ResourceId").val)]
    ELSE [ran |-> TRUE, outcome |-> Ok("resolved"), upstream |-> None]

\* variant of login_with_google: a failed lookup is taken for resource 0
login_with_googleMutLookupErr(google_token, answer, t, encOkA, encOkR) ==
    IF google_token.tag = "Err"
    THEN [steps |-> <<"exchange_err">>, call |-> None, result |-> google_token]
    ELSE LET e == email(google_token.val)
         IN  IF e.tag = "Err"
             THEN [steps |-> <<"exchange_ok", "email_err">>, call |-> None,
                   result |-> e]
             ELSE LET resource == get_resource_by_email(answer)
                  IN  IF resource.tag = "Err" \/ resource.val.tag = "Some"
                      THEN LET id == IF resource.tag = "Err" THEN 0
                                     ELSE resource.val.val.id
                               token == with_user_data(e.val, id, t,
                                                       encOkA, encOkR)
                           IN  [steps |-> <<"exchange_ok", "email_ok",
                                            IF resource.tag = "Err"
                                            THEN "lookup_err" ELSE "lookup_some",
                                            IF token.tag = "Ok" THEN "mint_ok"
                                            ELSE "mint_err">>,
                                call |-> Some([email |-> e.val,
                                               resource_id |-> id]),
                                result |-> token]
                      ELSE [steps |-> <<"exchange_ok", "email_ok", "lookup_none">>,
                            call |-> None,
                            result |-> Err([error |-> "No Teamdeck account found",
                                            email |-> e.val])]

\* variant of login_with_google: a directory miss is taken for resource 0
login_with_googleMutNone(google_token, answer, t, encOkA, encOkR) ==
    IF google_token.tag = "Err"
    THEN [steps |-> <<"exchange_err">>, call |-> None, result |-> google_token]
    ELSE LET e == email(google_token.val)
         IN  IF e.tag = "Err"
             THEN [steps |-> <<"exchange_ok", "email_err">>, call |-> None,
                   result |-> e]
             ELSE LET resource == get_resource_by_email(answer)
                  IN  IF resource.tag = "Err"
                      THEN [steps |-> <<"exchange_ok", "email_ok", "lookup_err">>,
                            call |-> None, result |-> resource]
                      ELSE LET id == IF resource.val.tag = "Some"
                                     THEN resource.val.val.id ELSE 0
                               token == with_user_data(e.val, id, t,
                                                       encOkA, encOkR)
                           IN  [steps |-> <<"exchange_ok", "email_ok",
                                            IF resource.val.tag = "Some"
                                            THEN "lookup_some" ELSE "lookup_none",
                                            IF token.tag = "Ok" THEN "mint_ok"
                                            ELSE "mint_err">>,
                                call |-> Some([email |-> e.val,
                                               resource_id |-> id]),
                                result |-> token]

\* variant of login_with_google: a failed exchange is tried a second time
login_with_googleMutRetry(google_token, answer, t, encOkA, encOkR) ==
    IF google_token.tag = "Err"
    THEN [steps |-> <<"exchange_err", "exchange_err">>, call |-> None,
          result |-> google_token]
    ELSE LET e == email(google_token.val)
         IN  IF e.tag = "Err"
             THEN [steps |-> <<"exchange_ok", "email_err">>, call |-> None,
                   result |-> e]
             ELSE LET resource == get_resource_by_email(answer)
                  IN  IF resource.tag = "Err"
                      THEN [steps |-> <<"exchange_ok", "email_ok", "lookup_err">>,
                            call |-> None, result |-> resource]
                      ELSE IF resource.val.tag = "Some"
                      THEN LET token == with_user_data(e.val, resource.val.val.id,
                                                       t, encOkA, encOkR)
                           IN  [steps |-> <<"exchange_ok", "email_ok",
                                            "lookup_some",
                                            IF token.tag = "Ok" THEN "mint_ok"
                                            ELSE "mint_err">>,
                                call |-> Some([email |-> e.val,
                                               resource_id |-> resource.val.val.id]),
                                result |-> token]
                      ELSE [steps |-> <<"exchange_ok", "email_ok", "lookup_none">>,
                            call |-> None,
                            result |-> Err([error |-> "No Teamdeck account found",
                                            email |-> e.val])]

\* AuthMutation::login_with_google, given the provider's and the directory's
\* answers: the steps taken, in order, the arguments of the with_user_data
\* call (if it is made) and the value returned
login_with_google(google_token, answer, t, encOkA, encOkR) ==
    IF google_token.tag = "Err"
    THEN [steps |-> <<"exchange_err">>, call |-> None, result |-> google_token]
    ELSE LET e == email(google_token.val)
         IN  IF e.tag = "Err"
             THEN [steps |-> <<"exchange_ok", "email_err">>, call |-> None,
                   result |-> e]
             ELSE LET resource == get_resource_by_email(answer)
                  IN  IF resource.tag = "Err"
                      THEN [steps |-> <<"exchange_ok", "email_ok", "lookup_err">>,
                            call |-> None, result |-> resource]
                      ELSE IF resource.val.tag = "Some"
                      THEN LET token == with_user_data(e.val, resource.val.val.id,
                                                       t, encOkA, encOkR)
                           IN  [steps |-> <<"exchange_ok", "email_ok",
                                            "lookup_some",
                                            IF token.tag = "Ok" THEN "mint_ok"
                                            ELSE "mint_err">>,
                                call |-> Some([email |-> e.val,
                                               resource_id |-> resource.val.val.id]),
                                result |-> token]
                      ELSE [steps |-> <<"exchange_ok", "email_ok", "lookup_none">>,
                            call |-> None,
                            result |-> Err([error |-> "No Teamdeck account found",
                                            email |-> e.val])]

-----------------------------------------------------------------------------
(* Credentials a client can present *)

\* a token signed by somebody who does not know the server's secrets
AttackerToken ==
    LET p == [sub |-> "a@moodup.team", iat |-> 0, exp |-> 2 * MaxTime,
              resource_id |-> 42]
    IN  [kind |-> "jwt", alg |-> "HS256", payload |-> p,
         sig |-> Sign("attacker", p)]

\* an issued access token whose resource_id was changed, signature kept
Tampered ==
    {[r.resp.access_token EXCEPT !.payload.resource_id = i] :
        r \in issued, i \in ResourceIds} \ {r.resp.access_token : r \in issued}

Presentable ==
    {r.resp.access_token : r \in issued} \cup
    {r.resp.refresh_token : r \in issued} \cup
    Tampered \cup {AttackerToken, GarbageWord}

Bearer(t) == Some([ascii |-> TRUE, words |-> <<BearerWord, t>>])

Headers ==
    {None, Some([ascii |-> FALSE, words |-> <<BearerWord>>]),
     Some([ascii |-> TRUE, words |-> << >>])} \cup
    {Bearer(t) : t \in Presentable} \cup
    {Some([ascii |-> TRUE, words |-> <<r.resp.access_token>>]) : r \in issued}

\* headers that differ in what surrounds the token
SchemeHeaders ==
    {None, Some([ascii |-> FALSE, words |-> <<BearerWord>>]),
     Some([ascii |-> TRUE, words |-> << >>]),
     Some([ascii |-> TRUE, words |-> <<BearerWord>>])} \cup
    UNION {{Bearer(t),
            Some([ascii |-> TRUE, words |-> <<t>>]),
            Some([ascii |-> TRUE, words |-> <<BasicWord, t>>]),
            Some([ascii |-> TRUE, words |-> <<BearerWord, t, GarbageWord>>]),
            Some([ascii |-> FALSE, words |-> <<BearerWord, t>>])} :
              t \in {r.resp.access_token : r \in issued}}

\* headers sent along with a login
LoginHeaders == {None} \cup {Bearer(r.resp.access_token) : r \in issued}

-----------------------------------------------------------------------------
(* sort_by_enum.rs *)

\* paste!: [<$variant Asc>], [<$variant Desc>]
paste(variant, suffix) == variant \o suffix

\* sort_by_enum!(Test { Name, Email, Role }, ResourcesSortBy)
TestVariants == <<"Name", "Email", "Role">>

\* sort_by_enum!(TimeEntriesSortBy { ... }, teamdeck's TimeEntriesSortBy)
TimeEntriesSortByVariants ==
    <<"ResourceId", "ProjectId", "Minutes", "WeekendBooking",
      "HolidaysBooking", "VacationsBooking", "Description", "ExternalId",
      "StartDate", "EndDate", "CreatorResourceId", "EditorResourceId">>

SortByEnums == {TestVariants, TimeEntriesSortByVariants}

\* SortBy::Asc, SortBy::Desc of the upstream client
SortBy(dir, field) == [dir |-> dir, field |-> field]

\* the enum the macro generates: two values for each variant, in order
sort_by_enum_values(variants) ==
    [i \in 1..(2 * Len(variants)) |->
        paste(variants[(i + 1) \div 2], IF i % 2 = 1 THEN "Asc" ELSE "Desc")]

\* variant of sort_by_enum_arms: the Desc arm builds an ascending sort
sort_by_enum_armsMutAsc(variants) ==
    [i \in 1..(2 * Len(variants)) |->
        [pat |-> sort_by_enum_values(variants)[i],
         out |-> SortBy("Asc", variants[(i + 1) \div 2])]]

\* the match arms of the generated From impl, in order
sort_by_enum_arms(variants) ==
    [i \in 1..(2 * Len(variants)) |->
        [pat |-> sort_by_enum_values(variants)[i],
         out |-> IF i % 2 = 1
                 THEN SortBy("Asc", variants[(i + 1) \div 2])
                 ELSE SortBy("Desc", variants[(i + 1) \div 2])]]

\* From::from of the generated enum: the first arm that matches
sort_by_enum_from(variants, val) ==
    LET arms == sort_by_enum_arms(variants)
        i == CHOOSE k \in DOMAIN arms :
                 /\ arms[k].pat = val
                 /\ \A j \in 1..(k - 1) : arms[j].pat # val
    IN  arms[i].out

-----------------------------------------------------------------------------
(* time_entry.rs: the timeEntries query *)

\* scalars::Date, a newtype around NaiveDate (a day number here)
Date(naive) == [naive |-> naive]

Dates == {Date(1), Date(2)}

\* TimeEntryDateRange
DateRanges == [from : Dates, to : Dates]

\* TimeEntryFilter, as a client can send it
Filters ==
    [sort : {None, Some("StartDateDesc")},
     page : {None},
     project_id : {None, Some(<<5>>)},
     external_id : {None},
     start_date : {None} \cup {Some(r) : r \in DateRanges},
     end_date : {None} \cup {Some(r) : r \in DateRanges},
     date : {None, Some(Date(1))}]

\* TimeEntries::builder(): no parameter of the request is set
TimeEntriesBuilder ==
    [resource_id |-> None, expand |-> None, project_id |-> None,
     external_id |-> None, start_date_from |-> None, start_date_to |-> None,
     end_date_from |-> None, end_date_to |-> None, sort |-> None,
     date |-> None]

\* a setter of the builder
set(builder, field, v) == [builder EXCEPT ![field] = Some(v)]

\* the context of a request whose access token verified
AuthCtx(rid) ==
    data(data(EmptyCtx, "AccessToken",
              [sub |-> "a@moodup.team", iat |-> 0, exp |-> Some(ACCESS_TTL),
               resource_id |-> rid]),
         "ResourceId", rid)

Contexts == {EmptyCtx} \cup {AuthCtx(rid) : rid \in ResourceIds}

\* TimeEntryQuery::time_entries, up to the request sent upstream
time_entries(ctx, filter) ==
    IF check(ctx).tag = "Err"
    THEN [calls |-> << >>, result |-> Err(AuthError)]
    ELSE
    LET rid == data_opt(ctx, "ResourceId").val
        b0 == set(set(TimeEntriesBuilder, "resource_id", <<rid>>),
                  "expand", "Tags")
        b1 == IF filter.project_id.tag = "Some"
              THEN set(b0, "project_id", filter.project_id.val) ELSE b0
        b2 == IF filter.external_id.tag = "Some"
              THEN set(b1, "external_id", filter.external_id.val) ELSE b1
        b3 == IF filter.start_date.tag = "Some"
              THEN set(set(b2, "start_date_from",
                           filter.start_date.val.from.naive),
                       "start_date_to", filter.start_date.val.to.naive)
              ELSE b2
        b4 == IF filter.end_date.tag = "Some"
              THEN set(set(b3, "start_date_from",
                           filter.end_date.val.from.naive),
                       "start_date_to", filter.end_date.val.to.naive)
              ELSE b3
        b5 == IF filter.sort.tag = "Some"
              THEN set(b4, "sort",
                       sort_by_enum_from(TimeEntriesSortByVariants,
                                         filter.sort.val))
              ELSE b4
        b6 == IF filter.date.tag = "Some"
              THEN set(b5, "date", filter.date.val.naive) ELSE b5
    IN  [calls |-> <<[call |-> "time_entries", endpoint |-> b6]>>,
         result |-> Ok("entries")]

-----------------------------------------------------------------------------
(* time_entry.rs and teamdeck/api.rs: creating and updating a time entry *)

\* TeamdeckApiError
NotFound == [error |-> "NotFound"]
ServerError == [error |-> "ServerError"]

\* UpdateTimeEntryError::NotACreator
NotACreator == [error |-> "NotACreator"]

SECS_PER_DAY == 86400

\* Utc::today().naive_utc()
today(t) == t \div SECS_PER_DAY

EntryIds == {100}

\* TimeEntryModel, as the upstream API returns it
Entry(id, rid, creator) ==
    [id |-> id, resource_id |-> rid, creator_resource_id |-> creator,
     editor_resource_id |-> creator, project_id |-> 1, minutes |-> 30,
     start_date |-> Date(1), end_date |-> Date(2)]

\* answers of the upstream API to the fetch of one time entry
FetchAnswers ==
    {Err(NotFound)} \cup
    {Ok(Entry(id, rid, creator)) :
        id \in EntryIds, rid \in ResourceIds, creator \in ResourceIds}

\* UpdateTimeEntryInput, as a client can send it
UpdateInputs ==
    [project_id : {None, Some(2)}, minutes : {None, Some(60)},
     weekend_booking : {None}, holidays_booking : {None},
     vacations_booking : {None}, description : {None},
     start_date : {None, Some(Date(2))}, end_date : {None, Some(Date(1))},
     tag_ids : {None, Some(<<9>>)}]

\* CreateTimeEntryInput, as a client can send it
CreateInputs ==
    [project_id : {1, 2}, weekend_booking : {None},
     holidays_booking : {None}, vacations_booking : {None},
     description : {None}, minutes : {None, Some(0), Some(60)},
     date : {None, Some(Date(1))}, tag_ids : {<<9>>}]

\* variant of from_graphql_input: an entry without minutes gets none
from_graphql_inputMutMinutes(input, rid, t) ==
    LET date == (IF input.date.tag = "Some" THEN input.date.val
                 ELSE Date(today(t))).naive
    IN  [resource_id |-> rid,
         project_id |-> input.project_id,
         minutes |-> IF input.minutes.tag = "Some" THEN input.minutes.val
                     ELSE 0,
         weekend_booking |-> input.weekend_booking,
         holidays_booking |-> input.holidays_booking,
         vacations_booking |-> input.vacations_booking,
         description |-> input.description,
         start_date |-> date,
         end_date |-> date,
         creator_resource_id |-> rid,
         editor_resource_id |-> rid]

\* CreateTimeEntryBody::from_graphql_input
from_graphql_input(input, rid, t) ==
    LET date == (IF input.date.tag = "Some" THEN input.date.val
                 ELSE Date(today(t))).naive
    IN  [resource_id |-> rid,
         project_id |-> input.project_id,
         minutes |-> IF input.minutes.tag = "Some" THEN input.minutes.val
                     ELSE 1,
         weekend_booking |-> input.weekend_booking,
         holidays_booking |-> input.holidays_booking,
         vacations_booking |-> input.vacations_booking,
         description |-> input.description,
         start_date |-> date,
         end_date |-> date,
         creator_resource_id |-> rid,
         editor_resource_id |-> rid]

\* TimeEntryMutation::create_time_entry. created is the upstream answer to
\* the creation (the id of the new entry), refetched the one to the final
\* fetch; the answer to the tag update, tagsOk, is logged and dropped.
create_time_entry(ctx, time_entry, t, created, tagsOk, refetched) ==
    IF check(ctx).tag = "Err"
    THEN [calls |-> << >>, result |-> Err(AuthError)]
    ELSE
    LET rid == data_opt(ctx, "ResourceId").val
        request_body == from_graphql_input(time_entry, rid, t)
        calls1 == <<[call |-> "add_time_entry", body |-> request_body]>>
    IN  IF created.tag = "Err"
        THEN [calls |-> calls1, result |-> Err(created.err)]
        ELSE
        LET calls2 ==
              calls1 \o
              <<[call |-> "update_time_entry_tags", id |-> created.val,
                 tags |-> time_entry.tag_ids],
                [call |-> "get_time_entry", id |-> created.val]>>
        IN  IF refetched.tag = "Err"
            THEN [calls |-> calls2, result |-> Err(refetched.err)]
            ELSE [calls |-> calls2, result |-> Ok(refetched.val)]

\* update_time_entry, the branch taken when the entry is the caller's own
update_own_entry(rid, time_entry_id, time_entry, update_data, updated, tagsOk, refetched) ==
    LET body ==
          [project_id |-> IF update_data.project_id.tag = "Some"
                          THEN update_data.project_id.val
                          ELSE time_entry.project_id,
           minutes |-> IF update_data.minutes.tag = "Some"
                       THEN update_data.minutes.val
                       ELSE time_entry.minutes,
           weekend_booking |-> update_data.weekend_booking,
           holidays_booking |-> update_data.holidays_booking,
           vacations_booking |-> update_data.vacations_booking,
           description |-> update_data.description,
           start_date |-> IF update_data.start_date.tag = "Some"
                          THEN update_data.start_date.val.naive
                          ELSE time_entry.start_date.naive,
           end_date |-> IF update_data.end_date.tag = "Some"
                        THEN update_data.end_date.val.naive
                        ELSE time_entry.end_date.naive,
           editor_resource_id |-> rid,
           tags |-> update_data.tag_ids]
        calls1 == <<[call |-> "get_time_entry", id |-> time_entry_id],
                    [call |-> "update_time_entry", id |-> time_entry_id,
                     body |-> body]>>
    IN  IF updated.tag = "Err"
        THEN [calls |-> calls1, result |-> Err(updated.err)]
        ELSE IF update_data.tag_ids.tag = "Some"
                /\ Len(update_data.tag_ids.val) # 0
        THEN LET calls2 ==
                   calls1 \o
                   <<[call |-> "update_time_entry_tags",
                      id |-> time_entry_id,
                      tags |-> update_data.tag_ids.val],
                     [call |-> "get_time_entry", id |-> time_entry_id]>>
             IN  IF refetched.tag = "Err"
                 THEN [calls |-> calls2, result |-> Err(refetched.err)]
                 ELSE [calls |-> calls2, result |-> Ok(refetched.val)]
        ELSE [calls |-> calls1, result |-> Ok(updated.val)]

\* variant of update_time_entry: the creator of the entry may update it
update_time_entryMutCreator(ctx, time_entry_id, update_data, fetched, updated, tagsOk, refetched) ==
    IF check(ctx).tag = "Err"
    THEN [calls |-> << >>, result |-> Err(AuthError)]
    ELSE
    LET rid == data_opt(ctx, "ResourceId").val
        calls0 == <<[call |-> "get_time_entry", id |-> time_entry_id]>>
    IN  IF fetched.tag = "Err"
        THEN [calls |-> calls0, result |-> Err(fetched.err)]
        ELSE IF fetched.val.creator_resource_id # rid
        THEN [calls |-> calls0, result |-> Err(NotACreator)]
        ELSE update_own_entry(rid, time_entry_id, fetched.val, update_data,
                              updated, tagsOk, refetched)

\* TimeEntryMutation::update_time_entry. fetched, updated and refetched are
\* the upstream answers to the first fetch, the update and the final fetch;
\* the answer to the tag update, tagsOk, is logged and dropped.
update_time_entry(ctx, time_entry_id, update_data, fetched, updated, tagsOk, refetched) ==
    IF check(ctx).tag = "Err"
    THEN [calls |-> << >>, result |-> Err(AuthError)]
    ELSE
    LET rid == data_opt(ctx, "ResourceId").val
        calls0 == <<[call |-> "get_time_entry", id |-> time_entry_id]>>
    IN  IF fetched.tag = "Err"
        THEN [calls |-> calls0, result |-> Err(fetched.err)]
        ELSE IF fetched.val.resource_id # rid
        THEN [calls |-> calls0, result |-> Err(NotACreator)]
        ELSE update_own_entry(rid, time_entry_id, fetched.val, update_data,
                              updated, tagsOk, refetched)

-----------------------------------------------------------------------------
(* teamdeck/api.rs: pages *)

\* TeamdeckApiError::ServerError(reason)
ServerErrorWith(reason) == [error |-> "ServerError", reason |-> reason]

\* From<reqwest::Error> for TeamdeckApiError
from_reqwest_error(error) ==
    IF error.status.tag = "Some"
    THEN IF error.status.val = 404 THEN NotFound
         ELSE ServerErrorWith("status")
    ELSE ServerErrorWith(error.text)

\* values of a response header: decimal digits, other text, other bytes
Digits(n) == [text |-> "digits", value |-> n]
Letters == [text |-> "letters"]
Bytes == [text |-> "bytes"]

\* TeamdeckApiClient::get_pagination_header_value
get_pagination_header_value(headers, header) ==
    IF headers[header].tag = "None"
    THEN Err(ServerErrorWith("missing header"))
    ELSE IF headers[header].val.text = "bytes"
    THEN Err(ServerErrorWith("to_str"))
    ELSE IF headers[header].val.text # "digits"
    THEN Err(ServerErrorWith("parse"))
    ELSE Ok(headers[header].val.value)

\* TeamdeckApiClient::read_pagination_info
read_pagination_info(headers) ==
    LET pages_count == get_pagination_header_value(headers, "pages_count")
        total_count == get_pagination_header_value(headers, "total_count")
        current_page == get_pagination_header_value(headers, "current_page")
        items_per_page ==
            get_pagination_header_value(headers, "items_per_page")
    IN  IF pages_count.tag = "Err" THEN pages_count
        ELSE IF total_count.tag = "Err" THEN total_count
        ELSE IF current_page.tag = "Err" THEN current_page
        ELSE IF items_per_page.tag = "Err" THEN items_per_page
        ELSE Ok([total_count |-> total_count.val,
                 pages_count |-> pages_count.val,
                 current_page |-> current_page.val,
                 items_per_page |-> items_per_page.val])

\* the page number get_resources_page asks for
query_page(page) == IF page.tag = "Some" THEN page.val ELSE 1

\* TeamdeckApiClient::get_resources_page, given the upstream answer
get_resources_page(page, answer) ==
    IF answer.tag = "Err" THEN Err(from_reqwest_error(answer.err))
    ELSE LET pagination == read_pagination_info(answer.val.headers)
         IN  IF pagination.tag = "Err" THEN pagination
             ELSE IF answer.val.body.tag = "Err"
             THEN Err(from_reqwest_error(answer.val.body.err))
             ELSE Ok([items |-> answer.val.body.val,
                      pagination |-> pagination.val])

\* the resources the upstream API holds on a page
PageItems(p) == <<[page |-> p, n |-> 1], [page |-> p, n |-> 2]>>

\* the pagination headers of a well-formed response
PageHeaders(p, pages_count) ==
    [pages_count |-> Some(Digits(pages_count)),
     total_count |-> Some(Digits(2 * pages_count)),
     current_page |-> Some(Digits(p)),
     items_per_page |-> Some(Digits(2))]

\* what the upstream API can answer to the request of page p
PageAnswers(p) ==
    {Err([status |-> None, text |-> "transport"]),
     Err([status |-> Some(404), text |-> "status"])} \cup
    {Ok([headers |-> PageHeaders(p, n), body |-> Ok(PageItems(p))]) :
        n \in 0..MaxPagesCount} \cup
    {Ok([headers |-> [PageHeaders(p, 1) EXCEPT !.pages_count = v],
         body |-> Ok(PageItems(p))]) : v \in {None, Some(Letters), Some(Bytes)}}
    \cup
    {Ok([headers |-> [PageHeaders(p, 1) EXCEPT !.items_per_page = None],
         body |-> Ok(PageItems(p))]),
     Ok([headers |-> PageHeaders(p, 1),
         body |-> Err([status |-> None, text |-> "decode"])])}

\* traverse_all_pages, before the loop
traverse_init ==
    [state |-> "running", items |-> << >>, current_page |-> 0,
     total_pages |-> 1, requested |-> << >>, answers |-> << >>]

\* traverse_all_pages, when the loop condition fails
traverse_return(t) ==
    [state |-> "done", result |-> Ok(t.items), items |-> t.items,
     requested |-> t.requested, answers |-> t.answers]

\* variant of traverse_iteration: a failing page ends the traversal with
\* the items gathered so far
traverse_iterationMutPartial(t, answer) ==
    LET current_page == t.current_page + 1
        page == get_resources_page(Some(current_page), answer)
        requested == Append(t.requested, query_page(Some(current_page)))
        answers == Append(t.answers, answer)
    IN  IF page.tag = "Err"
        THEN [state |-> "done", result |-> Ok(t.items), items |-> t.items,
              requested |-> requested, answers |-> answers]
        ELSE [state |-> "running", items |-> t.items \o page.val.items,
              current_page |-> current_page,
              total_pages |-> page.val.pagination.pages_count,
              requested |-> requested, answers |-> answers]

\* variant of traverse_iteration: the page is put before the items
traverse_iterationMutPrepend(t, answer) ==
    LET current_page == t.current_page + 1
        page == get_resources_page(Some(current_page), answer)
        requested == Append(t.requested, query_page(Some(current_page)))
        answers == Append(t.answers, answer)
    IN  IF page.tag = "Err"
        THEN [state |-> "done", result |-> Err(page.err), items |-> t.items,
              requested |-> requested, answers |-> answers]
        ELSE [state |-> "running", items |-> page.val.items \o t.items,
              current_page |-> current_page,
              total_pages |-> page.val.pagination.pages_count,
              requested |-> requested, answers |-> answers]

\* traverse_all_pages, one iteration of the loop body. requested and
\* answers log the pages asked for and the upstream answers to them.
traverse_iteration(t, answer) ==
    LET current_page == t.current_page + 1
        page == get_resources_page(Some(current_page), answer)
        requested == Append(t.requested, query_page(Some(current_page)))
        answers == Append(t.answers, answer)
    IN  IF page.tag = "Err"
        THEN [state |-> "done", result |-> Err(page.err), items |-> t.items,
              requested |-> requested, answers |-> answers]
        ELSE [state |-> "running", items |-> t.items \o page.val.items,
              current_page |-> current_page,
              total_pages |-> page.val.pagination.pages_count,
              requested |-> requested, answers |-> answers]

-----------------------------------------------------------------------------
(* timer.rs *)

\* CreateTimerInput, as a client can send it
TimerInputs ==
    [resource_id : ResourceIds, project_id : {1, 2}, description : {None}]

\* Timer::from_input, at the clock value t
Timer_from_input(input, t) ==
    [id |-> 0,
     resource_id |-> input.resource_id,
     started_at |-> t,
     ended_at |-> None,
     description |-> input.description,
     project_id |-> input.project_id]

\* Timers::get_by_resource_id
get_by_resource_id(data_, rid) ==
    SelectSeq(data_, LAMBDA t : t.resource_id = rid)

\* variant of add: the timer is put in front of the others
addMutFront(data_, timer) == <<timer>> \o data_

\* Timers::add
add(data_, timer) == Append(data_, timer)

\* Vec::last().cloned()
last(v) == IF Len(v) = 0 THEN None ELSE Some(v[Len(v)])

\* TimerQuery::current_timer
current_timer(data_, rid) == Ok(last(get_by_resource_id(data_, rid)))

\* TimerQuery::timers
timers_of(data_, rid) == Ok(get_by_resource_id(data_, rid))

-----------------------------------------------------------------------------
(* State machine *)

\* no request is being served by a resolver of the time entries
NoOp == [name |-> "none"]

\* before any traversal of the pages has begun
NoTraversal == [state |-> "idle"]

\* before the first request
NoResp ==
    [header |-> None, cause |-> "no_header", ctx |-> EmptyCtx, sel |-> {},
     results |-> [f \in {} |-> 0], steps |-> << >>, call |-> None,
     inputs |-> None]

Init ==
    /\ now = 0
    /\ accessSecret \in AccessSecrets
    /\ refreshSecret \in Secrets
    /\ issued = {}
    /\ resp = NoResp
    /\ op = NoOp
    /\ trav = NoTraversal
    /\ timers = <<>>
    /\ started = <<>>

\* the wall clock advances
Tick ==
    /\ \E t \in Instants :
          /\ t > now
          /\ now' = t
    /\ UNCHANGED <<accessSecret, refreshSecret, issued, resp>>
    /\ UNCHANGED <<op, trav, timers, started>>

\* variant of LoginDone: a successful login replaces the access secret
LoginDoneMutRotate(header, google_token, answer, nanos, encOkA, encOkR) ==
    LET out == login_with_google(google_token, answer,
                                 duration_since_epoch(now, nanos),
                                 encOkA, encOkR)
    IN  /\ resp' = [header |-> header,
                    cause |-> FailureCause(header, now),
                    ctx |-> index_ctx(header, now),
                    sel |-> {"loginWithGoogle"},
                    results |-> [f \in {"loginWithGoogle"} |->
                                    [ran |-> TRUE, outcome |-> out.result,
                                     upstream |-> None]],
                    steps |-> out.steps, call |-> out.call,
                    inputs |-> Some([google_token |-> google_token,
                                     answer |-> answer,
                                     issued_at |-> duration_since_epoch(now, nanos),
                                     encOk |-> <<encOkA, encOkR>>])]
        /\ issued' =
              IF out.result.tag = "Ok" /\ Cardinality(issued) < MaxIssued
              THEN issued \cup
                   {[email |-> out.call.val.email,
                     resource_id |-> out.call.val.resource_id,
                     iat |-> now, resp |-> out.result.val]}
              ELSE issued
        /\ accessSecret' = IF out.result.tag = "Ok"
                           THEN CHOOSE k \in Secrets : k # accessSecret
                           ELSE accessSecret
        /\ UNCHANGED <<now, refreshSecret>>
        /\ UNCHANGED <<op, trav, timers, started>>

\* index handles a request that selects loginWithGoogle, the wall clock
\* reading now seconds and nanos nanoseconds when the tokens are made.  The
\* client keeps the token response if it has room for it
LoginDone(header, google_token, answer, nanos, encOkA, encOkR) ==
    LET out == login_with_google(google_token, answer,
                                 duration_since_epoch(now, nanos),
                                 encOkA, encOkR)
    IN  /\ resp' = [header |-> header,
                    cause |-> FailureCause(header, now),
                    ctx |-> index_ctx(header, now),
                    sel |-> {"loginWithGoogle"},
                    results |-> [f \in {"loginWithGoogle"} |->
                                    [ran |-> TRUE, outcome |-> out.result,
                                     upstream |-> None]],
                    steps |-> out.steps, call |-> out.call,
                    inputs |-> Some([google_token |-> google_token,
                                     answer |-> answer,
                                     issued_at |-> duration_since_epoch(now, nanos),
                                     encOk |-> <<encOkA, encOkR>>])]
        /\ issued' =
              IF out.result.tag = "Ok" /\ Cardinality(issued) < MaxIssued
              THEN issued \cup
                   {[email |-> out.call.val.email,
                     resource_id |-> out.call.val.resource_id,
                     iat |-> now, resp |-> out.result.val]}
              ELSE issued
        /\ UNCHANGED <<now, accessSecret, refreshSecret>>
        /\ UNCHANGED <<op, trav, timers, started>>

\* index, for every login a client can start and every answer it can get
LoginAny ==
    \E header \in LoginHeaders, google_token \in ExchangeResults :
        IF google_token.tag = "Err" \/ email(google_token.val).tag = "Err"
        THEN LoginDone(header, google_token, Err("transport"), 0, TRUE, TRUE)
        ELSE \E answer \in DirectoryAnswers :
                IF get_resource_by_email(answer) \in {Err([error |-> "ServerError"]), Ok(None)}
                THEN LoginDone(header, google_token, answer, 0, TRUE, TRUE)
                ELSE \E encOkA \in BOOLEAN :
                        \* the refresh token is encoded after the access token,
                        \* and the clock's reading shows in the tokens only
                        IF ~encOkA
                        THEN LoginDone(header, google_token, answer, 0,
                                       FALSE, TRUE)
                        ELSE \E encOkR \in BOOLEAN :
                                IF ~encOkR
                                THEN LoginDone(header, google_token, answer, 0,
                                               TRUE, FALSE)
                                ELSE \E nanos \in SubsecNanos :
                                        LoginDone(header, google_token, answer,
                                                  nanos, TRUE, TRUE)

\* a login whose token response the client can keep
Login == Cardinality(issued) < MaxIssued /\ LoginAny

\* later logins: the exchange fails, or it returns an identity that passes
\* email(); the directory knows one resource for it
LaterExchanges ==
    {Err([error |-> "Transport"])} \cup
    {g \in ExchangeResults : g.tag = "Ok" /\ email(g.val).tag = "Ok"}
LaterAnswers == {Ok(<<[id |-> i]>>) : i \in ResourceIds}

\* a login while the client holds MaxIssued token responses already: its
\* response is not kept
Relogin ==
    /\ Cardinality(issued) >= MaxIssued
    /\ \E google_token \in LaterExchanges, answer \in LaterAnswers :
          LoginDone(None, google_token, answer, 0, TRUE, TRUE)

\* index handles a request that selects other root fields: bearer extraction,
\* verification, attachment to the query, schema.execute
IndexDone(header, sel, arg) ==
    resp' = [header |-> header,
             cause |-> FailureCause(header, now),
             ctx |-> index_ctx(header, now),
             sel |-> sel,
             results |-> [f \in sel |->
                             resolve_field(f, index_ctx(header, now), arg)],
             steps |-> << >>, call |-> None, inputs |-> None]

\* index, for every request a client can send
Index ==
    /\ \E header \in Headers, sel \in Selections :
          \* the arguments are read by resolvers that pass the guard only
          IF sel \cap GuardedFields = {} \/ index_ctx(header, now) = EmptyCtx
          THEN IndexDone(header, sel, 7)
          ELSE \E arg \in ResourceIds : IndexDone(header, sel, arg)
    /\ UNCHANGED <<now, accessSecret, refreshSecret, issued>>
    /\ UNCHANGED <<op, trav, timers, started>>

\* index, for requests that differ in the Authorization header only
IndexScheme ==
    /\ \E header \in SchemeHeaders : IndexDone(header, {"me"}, 7)
    /\ UNCHANGED <<now, accessSecret, refreshSecret, issued>>
    /\ UNCHANGED <<op, trav, timers, started>>

Next ==
    \/ Tick
    \/ Login
    \/ Index

Spec == Init /\ [][Next]_vars

\* the process environment is written after startup: one of the secrets gets
\* another value
SetEnv ==
    /\ \E kind \in Kinds, k \in Secrets :
          /\ k # secret(kind)
          /\ accessSecret' = IF kind = "Access" THEN k ELSE accessSecret
          /\ refreshSecret' = IF kind = "Refresh" THEN k ELSE refreshSecret
    /\ UNCHANGED <<now, issued, resp>>
    /\ UNCHANGED <<op, trav, timers, started>>

\* the server with logins going on after the client's store is full
NextSessions ==
    \/ Tick
    \/ Login
    \/ Relogin
    \/ Index

SpecSessions == Init /\ [][NextSessions]_vars

\* the server in a process whose environment changes while it runs
NextEnv ==
    \/ Tick
    \/ Login
    \/ Index
    \/ SetEnv

SpecEnv == Init /\ [][NextEnv]_vars

\* a timeEntries query
TimeEntriesQuery ==
    /\ op.name = "none"
    /\ \E ctx \in Contexts, filter \in Filters :
          op' = [name |-> "time_entries", ctx |-> ctx, filter |-> filter,
                 out |-> time_entries(ctx, filter)]
    /\ UNCHANGED <<now, accessSecret, refreshSecret, issued, resp>>
    /\ UNCHANGED <<trav, timers, started>>

\* a value of a generated sort enum is converted for the upstream client
SortInto ==
    /\ op.name = "none"
    /\ \E variants \in SortByEnums :
          \E i \in DOMAIN sort_by_enum_values(variants) :
             LET val == sort_by_enum_values(variants)[i]
             IN  op' = [name |-> "sort_into", variants |-> variants,
                        val |-> val,
                        out |-> sort_by_enum_from(variants, val)]
    /\ UNCHANGED <<now, accessSecret, refreshSecret, issued, resp>>
    /\ UNCHANGED <<trav, timers, started>>

\* a createTimeEntry mutation, with every answer the upstream API can give
CreateTimeEntry ==
    /\ op.name = "none"
    /\ \E ctx \in Contexts, time_entry \in CreateInputs,
          created \in {Err(ServerError)} \cup {Ok(id) : id \in EntryIds},
          refetched \in FetchAnswers :
          op' = [name |-> "create_time_entry", ctx |-> ctx,
                 input |-> time_entry, at |-> now,
                 out |-> create_time_entry(ctx, time_entry, now, created,
                                           TRUE, refetched)]
    /\ UNCHANGED <<now, accessSecret, refreshSecret, issued, resp>>
    /\ UNCHANGED <<trav, timers, started>>

\* an updateTimeEntry mutation, with every answer the upstream API can give
UpdateTimeEntry ==
    /\ op.name = "none"
    /\ \E ctx \in Contexts, time_entry_id \in EntryIds,
          update_data \in UpdateInputs, fetched \in FetchAnswers,
          updated \in {Err(ServerError), Ok("updated")},
          refetched \in {Err(ServerError), Ok("refetched")} :
          op' = [name |-> "update_time_entry", ctx |-> ctx,
                 input |-> update_data, fetched |-> fetched,
                 out |-> update_time_entry(ctx, time_entry_id, update_data,
                                           fetched, updated, TRUE,
                                           refetched)]
    /\ UNCHANGED <<now, accessSecret, refreshSecret, issued, resp>>
    /\ UNCHANGED <<trav, timers, started>>

\* the response to the request is sent: the resolvers keep nothing of it
Reply ==
    /\ op.name # "none"
    /\ op' = NoOp
    /\ UNCHANGED <<now, accessSecret, refreshSecret, issued, resp>>
    /\ UNCHANGED <<trav, timers, started>>

NextEntries ==
    \/ Tick
    \/ TimeEntriesQuery
    \/ SortInto
    \/ CreateTimeEntry
    \/ UpdateTimeEntry
    \/ Reply

SpecEntries == Init /\ [][NextEntries]_vars

\* get_resources is called: a traversal begins
TraverseStart ==
    /\ trav.state # "running"
    /\ trav' = traverse_init
    /\ UNCHANGED <<now, accessSecret, refreshSecret, issued, resp>>
    /\ UNCHANGED <<op, timers, started>>

\* the loop of traverse_all_pages: the test, and one iteration or the return
TraverseLoop ==
    /\ trav.state = "running"
    /\ IF trav.current_page # trav.total_pages
       THEN /\ trav.current_page < MaxPage
            /\ \E answer \in PageAnswers(trav.current_page + 1) :
                  trav' = traverse_iteration(trav, answer)
       ELSE trav' = traverse_return(trav)
    /\ UNCHANGED <<now, accessSecret, refreshSecret, issued, resp>>
    /\ UNCHANGED <<op, timers, started>>

NextPages == TraverseStart \/ TraverseLoop

SpecPages == Init /\ [][NextPages]_vars

\* a startTimer mutation
StartTimer ==
    /\ Len(timers) < MaxTimers
    /\ \E input \in TimerInputs :
          LET timer == Timer_from_input(input, now)
          IN  /\ timers' = add(timers, timer)
              /\ started' = Append(started, timer)
              /\ op' = [name |-> "start_timer", input |-> input,
                        seen |-> Len(started), out |-> Ok(timer)]
    /\ UNCHANGED <<now, accessSecret, refreshSecret, issued, resp, trav>>

\* a timers query
TimersQuery ==
    /\ \E rid \in ResourceIds :
          op' = [name |-> "timers", resource_id |-> rid,
                 seen |-> Len(started), out |-> timers_of(timers, rid)]
    /\ UNCHANGED <<now, accessSecret, refreshSecret, issued, resp, trav>>
    /\ UNCHANGED <<timers, started>>

\* a currentTimer query
CurrentTimerQuery ==
    /\ \E rid \in ResourceIds :
          op' = [name |-> "current_timer", resource_id |-> rid,
                 seen |-> Len(started), out |-> current_timer(timers, rid)]
    /\ UNCHANGED <<now, accessSecret, refreshSecret, issued, resp, trav>>
    /\ UNCHANGED <<timers, started>>

NextTimers == Tick \/ StartTimer \/ TimersQuery \/ CurrentTimerQuery

SpecTimers == Init /\ [][NextTimers]_vars

NextScheme == Tick \/ Login \/ IndexScheme

SpecScheme == Init /\ [][NextScheme]_vars

TypeOK ==
    /\ now \in Instants
    /\ accessSecret \in Secrets /\ refreshSecret \in Secrets
    /\ Cardinality(issued) <= MaxIssued
    /\ resp.sel \subseteq QueryFields \cup MutationFields \cup {"loginWithGoogle"}

-----------------------------------------------------------------------------
(* Properties *)

AuthErrResult ==
    [ran |-> FALSE, outcome |-> Err(AuthError), upstream |-> None]

GuardedSelected == resp.sel \cap GuardedFields

Both == resp.ctx.AccessToken.tag = "Some" /\ resp.ctx.ResourceId.tag = "Some"
Neither == resp.ctx.AccessToken.tag = "None" /\ resp.ctx.ResourceId.tag = "None"

AccessTokens == {r.resp.access_token : r \in issued}
RefreshTokens == {r.resp.refresh_token : r \in issued}

\* C1: whatever the reason the bearer credential of a request did not verify
\* (no header, no token in it, malformed, expired, wrong signature), nothing
\* is attached to the context and every guarded field selected by the request
\* yields the one and the same error, InvalidAccessToken.
Inv_C1_UniformFailClosed ==
    resp.cause # "verified" =>
        /\ resp.ctx = EmptyCtx
        /\ \A f \in GuardedSelected : resp.results[f] = AuthErrResult

\* an expired, genuinely issued access token was presented to a guarded field
Witness_C1 ==
    /\ resp.cause = "ExpiredSignature"
    /\ get_token(resp.header).tag = "Some"
    /\ get_token(resp.header).val \in AccessTokens
    /\ "me" \in resp.sel
    /\ resp.results["me"] = AuthErrResult

\* C2: the context of a request carries both a verified AccessToken and a
\* ResourceId, exactly when verification of the extracted bearer token
\* succeeded, or neither of them; the guard's check returns Ok in the first
\* case and InvalidAccessToken in the second.
Inv_C2_BothOrNeither ==
    /\ Both \/ Neither
    /\ Both <=> resp.cause = "verified"
    /\ Both => /\ check(resp.ctx) = Ok(TRUE)
               /\ resp.ctx.ResourceId.val = resp.ctx.AccessToken.val.resource_id
    /\ Neither => check(resp.ctx) = Err(AuthError)
    /\ \A f \in GuardedSelected :
          resp.results[f].outcome \in {Ok("resolved"), Err(AuthError)}

\* a verified request whose guarded field passed the guard
Witness_C2 ==
    /\ Both
    /\ "timeEntries" \in resp.sel
    /\ resp.results["timeEntries"].outcome = Ok("resolved")

\* C3: an access token returned by with_user_data(email, resource_id) verifies
\* at every time before its expiry and yields claims with that resource_id and
\* with that email as sub.
Inv_C3_IssueVerifyRoundTrip ==
    \A r \in issued :
        now < r.iat + ACCESS_TTL =>
            LET v == AccessToken_verify(r.resp.access_token, now)
            IN  /\ v.tag = "Ok"
                /\ resource_id(v.val) = r.resource_id
                /\ v.val.sub = r.email

\* a token issued earlier is verified one second before its expiry
Witness_C3 ==
    \E r \in issued :
        /\ now = r.iat + ACCESS_TTL - 1
        /\ AccessToken_verify(r.resp.access_token, now).tag = "Ok"

VerifiesNow(r) == AccessToken_verify(r.resp.access_token, now).tag = "Ok"

SignatureOk(kind, tok) == tok.sig = Sign(secret(kind), tok.payload)

Credentials == {t \in Presentable : t.kind = "jwt"}

\* C5: for either kind and every credential, decode_claims accepts it if and
\* only if its signature verifies against the kind's secret and it either has
\* no exp or the current time is strictly before exp.
Inv_C5_ValidIffSignedAndUnexpired ==
    \A kind \in Kinds, tok \in Credentials :
        decode_claims(kind, tok, now).tag = "Ok" <=>
            /\ SignatureOk(kind, tok)
            /\ \/ "exp" \notin DOMAIN tok.payload
               \/ now < tok.payload.exp

\* C6: when the two secrets differ, no issued refresh token is accepted by
\* AccessToken::verify, no request presenting one passes the guard, and no
\* issued access token is accepted when decoded against the refresh secret.
Inv_C6_NotCrossVerifiable ==
    accessSecret # refreshSecret =>
        /\ \A r \in issued :
              /\ AccessToken_verify(r.resp.refresh_token, now).tag = "Err"
              /\ decode_claims("Refresh", r.resp.access_token, now).tag = "Err"
        /\ (get_token(resp.header).tag = "Some"
            /\ get_token(resp.header).val \in RefreshTokens) =>
              /\ check(resp.ctx) = Err(AuthError)
              /\ \A f \in GuardedSelected : resp.results[f] = AuthErrResult

\* with different secrets, a refresh token was presented to a guarded field
Witness_C6 ==
    /\ accessSecret # refreshSecret
    /\ get_token(resp.header).tag = "Some"
    /\ get_token(resp.header).val \in RefreshTokens
    /\ "createTimeEntry" \in resp.sel

\* C7: a guarded resolver runs its body, and calls upstream, only in a request
\* whose bearer token verified; the token is one the server issued, and the
\* resource id used upstream is the resource_id claim of that token.
Inv_C7_GuardedOnlyVerified ==
    \A f \in GuardedSelected :
        (resp.results[f].ran \/ resp.results[f].upstream # None) =>
            /\ resp.cause = "verified"
            /\ get_token(resp.header).val \in AccessTokens
            /\ resp.results[f].upstream =
                  Some(get_token(resp.header).val.payload.resource_id)
            /\ \E r \in issued :
                  /\ r.resp.access_token = get_token(resp.header).val
                  /\ resp.results[f].upstream = Some(r.resource_id)

\* all four guarded resolvers ran
Witness_C7 ==
    \E s \in {QueryFields, MutationFields} :
        /\ resp.sel = s
        /\ \A f \in GuardedSelected : resp.results[f].ran
        /\ \E f \in GuardedSelected : resp.results[f].upstream = Some(7)

IsLogin == resp.sel = {"loginWithGoogle"}
LoginResult == resp.results["loginWithGoogle"].outcome

\* C9: login_with_google returns a token response only after the exchange,
\* email() and the directory lookup succeeded, in this order; the access token
\* carries the verified email as sub and the id of the resource the directory
\* returned as resource_id, also after verification.
Inv_C9_LoginOrder ==
    IsLogin =>
        LET in == resp.inputs.val
        IN  /\ LoginResult.tag = "Ok" =>
               /\ resp.steps = <<"exchange_ok", "email_ok", "lookup_some", "mint_ok">>
               /\ in.google_token.tag = "Ok"
               /\ email(in.google_token.val).tag = "Ok"
               /\ get_resource_by_email(in.answer).tag = "Ok"
               /\ get_resource_by_email(in.answer).val.tag = "Some"
               /\ LoginResult.val.access_token.payload.sub
                     = in.google_token.val.id_token.val.payload.email
               /\ LoginResult.val.access_token.payload.resource_id
                     = get_resource_by_email(in.answer).val.val.id
               /\ now < LoginResult.val.access_token.payload.exp =>
                     LET v == AccessToken_verify(LoginResult.val.access_token, now)
                     IN  /\ v.tag = "Ok"
                         /\ resource_id(v.val) = in.answer.val[1].id
            /\ (\/ in.google_token.tag = "Err"
                \/ email(in.google_token.val).tag = "Err"
                \/ get_resource_by_email(in.answer).tag = "Err")
                  => LoginResult.tag = "Err" /\ resp.call = None

\* the directory returned the resource 42 and the token verifies to 42
Witness_C9 ==
    /\ IsLogin
    /\ LoginResult.tag = "Ok"
    /\ resp.inputs.val.answer.val[1].id = 42
    /\ AccessToken_verify(LoginResult.val.access_token, now).tag = "Ok"
    /\ resource_id(AccessToken_verify(LoginResult.val.access_token, now).val) = 42

DirectoryMiss ==
    /\ IsLogin
    /\ resp.inputs.val.google_token.tag = "Ok"
    /\ email(resp.inputs.val.google_token.val).tag = "Ok"
    /\ resp.inputs.val.answer = Ok(<< >>)

\* C10: when identity verification succeeds and the directory returns no
\* resource for the email, login_with_google returns the "no account found
\* with <email> email" error, no token, and with_user_data is not called.
Inv_C10_DirectoryMiss ==
    DirectoryMiss =>
        /\ LoginResult =
              Err([error |-> "No Teamdeck account found",
                   email |-> resp.inputs.val.google_token.val.id_token.val.payload.email])
        /\ resp.call = None
        /\ resp.steps = <<"exchange_ok", "email_ok", "lookup_none">>

\* a login of a verified user the directory does not know
Witness_C10 ==
    /\ DirectoryMiss
    /\ LoginResult.tag = "Err"
    /\ issued = {}

-----------------------------------------------------------------------------
(* Identity check of a login: GoogleTokenResponse::email *)

\* the exchange of the login answered with a response
Exchanged == IsLogin /\ resp.inputs.val.google_token.tag = "Ok"

\* the id_token field of that response
LoginIdToken == resp.inputs.val.google_token.val.id_token

\* that id_token decodes
Decodes == LoginIdToken.tag = "Some" /\ LoginIdToken.val.kind = "jwt"

\* the claims of that id_token
IdClaims == LoginIdToken.val.payload

\* email() returned Ok for the login
EmailOk == Exchanged /\ Len(resp.steps) >= 2 /\ resp.steps[2] = "email_ok"

\* the value email() returned for the login, when it failed
EmailErr == Exchanged /\ resp.steps = <<"exchange_ok", "email_err">>

\* the part of an address after the @
EmailDomain(e) ==
    IF e = "a@moodup.team" THEN "moodup.team"
    ELSE IF e = "x@evil.com" THEN "evil.com"
    ELSE "unknown"

\* C11: email() returns Ok(email) only for a response with an id_token whose
\* claims have email_verified = true and hd = "moodup.team"; the email is the
\* email claim unchanged, and the email itself is an address of moodup.team.
Inv_C11_OkOnlyAllowListedEmail ==
    EmailOk =>
        /\ Decodes
        /\ IdClaims.email_verified
        /\ IdClaims.hd = "moodup.team"
        /\ email(resp.inputs.val.google_token.val) = Ok(IdClaims.email)
        /\ EmailDomain(IdClaims.email) = "moodup.team"

\* C12: email() fails with EmailNotVerified(email) whenever the id_token's
\* email_verified is false, whatever the hd claim is.
Inv_C12_UnverifiedFirst ==
    (Exchanged /\ Decodes /\ ~IdClaims.email_verified) =>
        /\ EmailErr
        /\ LoginResult = Err([error |-> "EmailNotVerified",
                              email |-> IdClaims.email])
        /\ resp.call = None

\* an unverified email of the allow-listed domain was refused
Witness_C12 ==
    /\ Exchanged /\ Decodes
    /\ ~IdClaims.email_verified
    /\ IdClaims.hd = "moodup.team"
    /\ LoginResult.tag = "Err"
    /\ LoginResult.err.error = "EmailNotVerified"

Inv_C14_IdTokenMissing ==
    (Exchanged /\ LoginIdToken = None) =>
        /\ EmailErr
        /\ LoginResult = Err([error |-> "IdTokenMissing"])
        /\ resp.call = None

\* a login whose exchange answered without an id_token
Witness_C14 ==
    /\ Exchanged
    /\ LoginIdToken = None
    /\ LoginResult.tag = "Err"
    /\ LoginResult.err.error = "IdTokenMissing"

-----------------------------------------------------------------------------
(* Issuance: TokenResponse::with_user_data *)

\* the login called with_user_data
Minted == IsLogin /\ resp.call # None

\* C15: a successful with_user_data call makes two claims: the access claims
\* {sub: email, iat, exp: iat + TTL, resource_id} and the refresh claims with
\* the same sub, iat and resource_id and no exp; the access token is signed
\* with the access secret and the refresh token with the refresh secret.
Inv_C15_TwoClaims ==
    /\ \A r \in issued :
          LET a == r.resp.access_token
              f == r.resp.refresh_token
          IN  /\ DOMAIN r.resp = {"access_token", "refresh_token", "expires_in"}
              /\ Deserialize(a.payload) =
                    [sub |-> r.email, iat |-> r.iat,
                     exp |-> Some(r.iat + ACCESS_TTL),
                     resource_id |-> r.resource_id]
              /\ Deserialize(f.payload) =
                    [Deserialize(a.payload) EXCEPT !.exp = None]
              /\ "exp" \notin DOMAIN f.payload
              /\ a.sig = Sign(accessSecret, a.payload)
              /\ f.sig = Sign(refreshSecret, f.payload)
    /\ (Minted /\ LoginResult.tag = "Ok") =>
          LET a == LoginResult.val.access_token
              f == LoginResult.val.refresh_token
          IN  /\ Deserialize(a.payload) =
                    [sub |-> resp.call.val.email,
                     iat |-> resp.inputs.val.issued_at.secs,
                     exp |-> Some(resp.inputs.val.issued_at.secs + ACCESS_TTL),
                     resource_id |-> resp.call.val.resource_id]
              /\ Deserialize(f.payload) =
                    [Deserialize(a.payload) EXCEPT !.exp = None]
              /\ a.sig.key = accessSecret
              /\ f.sig.key = refreshSecret

\* tokens were issued by a server whose two secrets differ
Witness_C15 ==
    /\ accessSecret # refreshSecret
    /\ \E r \in issued :
          /\ r.resp.access_token.sig.key = accessSecret
          /\ r.resp.refresh_token.sig.key = refreshSecret
          /\ r.resp.refresh_token.payload.iat = r.resp.access_token.payload.iat

\* C16: expires_in of every token response is the access TTL in whole
\* seconds and is exp - iat of the access token's claims, whatever the
\* sub-second part of the issue time.
Inv_C16_ExpiresIn ==
    /\ \A r \in issued :
          /\ r.resp.expires_in = 60 * 60 * 24 * 7
          /\ r.resp.expires_in =
                r.resp.access_token.payload.exp - r.resp.access_token.payload.iat
    /\ (Minted /\ LoginResult.tag = "Ok") =>
          /\ LoginResult.val.expires_in = 60 * 60 * 24 * 7
          /\ LoginResult.val.expires_in =
                LoginResult.val.access_token.payload.exp
                    - LoginResult.val.access_token.payload.iat
          /\ LoginResult.val.access_token.payload.iat
                = resp.inputs.val.issued_at.secs

\* tokens were issued one nanosecond before the end of a second
Witness_C16 ==
    /\ Minted
    /\ LoginResult.tag = "Ok"
    /\ resp.inputs.val.issued_at.nanos = NANOS_PER_SEC - 1
    /\ LoginResult.val.expires_in = ACCESS_TTL

\* the exchange steps of the login
ExchangeSteps ==
    {i \in DOMAIN resp.steps : resp.steps[i] \in {"exchange_ok", "exchange_err"}}

\* C17: one login_with_google call sends the code to the token endpoint
\* once; when the exchange fails (transport or decode) the call returns that
\* error and does nothing more.
Inv_C17_ExchangeOnce ==
    IsLogin =>
        /\ Cardinality(ExchangeSteps) = 1
        /\ resp.inputs.val.google_token.tag = "Err" =>
              /\ resp.steps = <<"exchange_err">>
              /\ LoginResult = resp.inputs.val.google_token
              /\ resp.call = None

\* a login whose exchange failed to decode the provider's answer
Witness_C17 ==
    /\ IsLogin
    /\ resp.inputs.val.google_token = Err([error |-> "Decode"])
    /\ LoginResult = Err([error |-> "Decode"])
    /\ resp.steps = <<"exchange_err">>

Prop_C19_ConfigReadOnce ==
    [][\A r \in issued :
          (now' = now /\ AccessToken_verify(r.resp.access_token, now).tag = "Ok")
              => (AccessToken_verify(r.resp.access_token, now).tag = "Ok")']_vars

\* C20: when the encoding of either token fails, with_user_data returns
\* EncodingError and no token response: an access token already encoded is
\* not returned when the refresh token's encoding fails.
Inv_C20_EncodingError ==
    /\ (Minted /\ resp.inputs.val.encOk # <<TRUE, TRUE>>) =>
          /\ LoginResult = Err([error |-> "EncodingError"])
          /\ resp.steps[Len(resp.steps)] = "mint_err"
    /\ (Minted /\ LoginResult.tag = "Ok") =>
          /\ resp.inputs.val.encOk = <<TRUE, TRUE>>
          /\ LoginResult.val.access_token.kind = "jwt"
          /\ LoginResult.val.refresh_token.kind = "jwt"
    /\ \A r \in issued :
          r.resp.access_token.kind = "jwt" /\ r.resp.refresh_token.kind = "jwt"

\* the access token was encoded and the encoding of the refresh token failed
Witness_C20 ==
    /\ Minted
    /\ resp.inputs.val.encOk = <<TRUE, FALSE>>
    /\ LoginResult.tag = "Err"
    /\ LoginResult.err.error = "EncodingError"
-----------------------------------------------------------------------------
(* Bearer extraction *)

\* the header carries no word: it is absent, not visible ASCII, or blank
NoWord(header) ==
    \/ header.tag = "None"
    \/ ~header.val.ascii
    \/ header.val.words = << >>

LastWord(header) == header.val.words[Len(header.val.words)]

\* C23: a request yields no token exactly when its Authorization header is
\* absent, is not visible ASCII, or holds no word; otherwise the token is the
\* last word of the header, whatever precedes it: the request is
\* authenticated exactly when that last word verifies as an access token, and
\* then the context carries its claims, be the scheme Bearer, another one, or
\* none at all.
Prop_C23_LastWordIsToken ==
    [][resp' # resp =>
         LET h == resp'.header
         IN  /\ (resp'.cause \in {"no_header", "no_token"}) <=> NoWord(h)
             /\ ~NoWord(h) =>
                  LET v == AccessToken_verify(LastWord(h), now)
                  IN  IF v.tag = "Ok"
                      THEN /\ resp'.cause = "verified"
                           /\ resp'.ctx.AccessToken = Some(v.val)
                           /\ resp'.ctx.ResourceId = Some(v.val.resource_id)
                      ELSE /\ resp'.cause = v.err.source
                           /\ resp'.ctx = EmptyCtx]_vars

\* a valid access token behind another scheme has authenticated a request
Witness_C23 ==
    /\ resp.header.tag = "Some"
    /\ resp.header.val.ascii
    /\ Len(resp.header.val.words) = 2
    /\ resp.header.val.words[1] = BasicWord
    /\ resp.cause = "verified"
    /\ resp.ctx.AccessToken.tag = "Some"

-----------------------------------------------------------------------------
(* Time entries *)

\* the request a timeEntries query has sent upstream
Endpoint == op.out.calls[1].endpoint

OptNaive(d) == IF d.tag = "Some" THEN Some(d.val.naive) ELSE None

\* C21: the request built for a timeEntries query with an end_date range
\* carries that range as its end-date bounds, and its start-date bounds are
\* those of the start_date filter, unset when there is none.
Inv_C21_EndDateBounds ==
    (op.name = "time_entries" /\ op.out.calls # << >>
       /\ op.filter.end_date.tag = "Some") =>
        /\ Endpoint.end_date_from = Some(op.filter.end_date.val.from.naive)
        /\ Endpoint.end_date_to = Some(op.filter.end_date.val.to.naive)
        /\ Endpoint.start_date_from =
             (IF op.filter.start_date.tag = "Some"
              THEN Some(op.filter.start_date.val.from.naive) ELSE None)
        /\ Endpoint.start_date_to =
             (IF op.filter.start_date.tag = "Some"
              THEN Some(op.filter.start_date.val.to.naive) ELSE None)

\* C22: every value a sort_by_enum! invocation generates is VAsc or VDesc of
\* one listed variant V, and converts to the ascending, respectively the
\* descending, sort by that same V.
Inv_C22_SortByEnum ==
    op.name = "sort_into" =>
        /\ \E k \in DOMAIN op.variants :
              op.val \in {op.variants[k] \o "Asc", op.variants[k] \o "Desc"}
        /\ \A k \in DOMAIN op.variants :
              /\ op.val = op.variants[k] \o "Asc"
                   => op.out = [dir |-> "Asc", field |-> op.variants[k]]
              /\ op.val = op.variants[k] \o "Desc"
                   => op.out = [dir |-> "Desc", field |-> op.variants[k]]

\* RoleDesc of the Test enum has been converted
Witness_C22 ==
    /\ op.name = "sort_into"
    /\ op.val = "RoleDesc"
    /\ op.out = [dir |-> "Desc", field |-> "Role"]

\* the requests of the last mutation that change data upstream
Updates ==
    {k \in DOMAIN op.out.calls :
        op.out.calls[k].call \in {"update_time_entry",
                                  "update_time_entry_tags"}}

EntryUpdates ==
    {k \in DOMAIN op.out.calls : op.out.calls[k].call = "update_time_entry"}

Caller == op.ctx.ResourceId.val

Own == op.fetched.tag = "Ok" /\ op.fetched.val.resource_id = Caller

Inv_C25_CreateForSelf ==
    op.name = "create_time_entry" =>
        \A k \in DOMAIN op.out.calls :
           op.out.calls[k].call = "add_time_entry" =>
              LET body == op.out.calls[k].body
              IN  /\ op.ctx # EmptyCtx
                  /\ body.resource_id = Caller
                  /\ body.creator_resource_id = Caller
                  /\ body.editor_resource_id = Caller
                  /\ body.start_date = body.end_date
                  /\ body.minutes = (IF op.input.minutes = None THEN 1
                                     ELSE op.input.minutes.val)

\* an entry without minutes and without a date has been created
Witness_C25 ==
    /\ op.name = "create_time_entry"
    /\ op.input.minutes = None
    /\ op.input.date = None
    /\ op.at > 0
    /\ op.out.calls # << >>
    /\ op.out.calls[1].body.minutes = 1
    /\ op.out.result.tag = "Ok"

-----------------------------------------------------------------------------
(* Pages *)

\* the upstream answer is a page with well-formed pagination headers
GoodPage(answer) ==
    /\ answer.tag = "Ok"
    /\ answer.val.body.tag = "Ok"
    /\ \A h \in DOMAIN answer.val.headers :
          /\ answer.val.headers[h].tag = "Some"
          /\ answer.val.headers[h].val.text = "digits"

\* the pages_count the k-th answer reports
Reported(k) == trav.answers[k].val.headers.pages_count.val.value

Traversing == trav.state \in {"running", "done"}

\* C26: traverse_all_pages terminates whatever pages_count values the
\* upstream API reports, a 0 on the first page and a count below the page
\* just fetched included: once a page has reported a count that does not
\* exceed its own number, no further page is requested.
Inv_C26_Terminates ==
    Traversing =>
        \A k \in DOMAIN trav.requested :
           (k < Len(trav.requested) /\ GoodPage(trav.answers[k]))
              => Reported(k) > trav.requested[k]

RECURSIVE Flatten(_)
Flatten(seqs) ==
    IF seqs = << >> THEN << >> ELSE Head(seqs) \o Flatten(Tail(seqs))

\* every page so far was well-formed and reported n as the pages_count
AllReport(n) ==
    /\ trav.answers # << >>
    /\ \A k \in DOMAIN trav.answers :
          GoodPage(trav.answers[k]) /\ Reported(k) = n

\* C27: while the upstream API reports the same pages_count N >= 1 on every
\* page, the pages requested are 1, 2, ... in this order, each once and
\* never beyond N; the traversal returns only after page N, and returns the
\* items of the pages 1..N concatenated in page order.
Inv_C27_AllPagesInOrder ==
    Traversing =>
        \A n \in 1..MaxPagesCount :
           AllReport(n) =>
              /\ trav.requested = [k \in 1..Len(trav.requested) |-> k]
              /\ Len(trav.requested) <= n
              /\ trav.state = "done" =>
                    /\ Len(trav.requested) = n
                    /\ trav.result =
                         Ok(Flatten([k \in 1..n |->
                                        trav.answers[k].val.body.val]))

\* a traversal of two pages has returned
Witness_C27 ==
    /\ trav.state = "done"
    /\ AllReport(2)
    /\ trav.requested = <<1, 2>>
    /\ trav.result.tag = "Ok"
    /\ Len(trav.result.val) = 4

\* C28: when the fetch of a page fails (the transport fails, a pagination
\* header is missing or is not a number, the body does not decode), that
\* page is the last one requested and the traversal has returned an error
\* and nothing else: no item of the pages fetched before.
Inv_C28_ErrorAlone ==
    Traversing =>
        \A k \in DOMAIN trav.answers :
           ~GoodPage(trav.answers[k]) =>
              /\ k = Len(trav.answers)
              /\ Len(trav.requested) = k
              /\ trav.state = "done"
              /\ trav.result.tag = "Err"
              /\ DOMAIN trav.result = {"tag", "err"}
              /\ trav.result.err \in
                   {NotFound} \cup
                   {ServerErrorWith(r) :
                       r \in {"transport", "decode", "missing header",
                              "to_str", "parse"}}

\* the second page came without its pages_count header, after a first page
\* with items
Witness_C28 ==
    /\ trav.state = "done"
    /\ Len(trav.answers) = 2
    /\ GoodPage(trav.answers[1])
    /\ Reported(1) = 2
    /\ trav.answers[2].tag = "Ok"
    /\ trav.answers[2].val.headers.pages_count = None
    /\ trav.items # << >>
    /\ trav.result = Err(ServerErrorWith("missing header"))

-----------------------------------------------------------------------------
(* Timers *)

\* the timers started so far with the resource id rid, in the order started
StartedWith(log, rid) == SelectSeq(log, LAMBDA t : t.resource_id = rid)

\* the answers the two queries give for rid in a state with the store d
Answers(d, rid) == <<timers_of(d, rid), current_timer(d, rid)>>

\* C29: a timers query returns the timers started so far with its resource
\* id, in the order they were started, and a currentTimer query the last of
\* them, None when there is none; a step never shortens the store or changes
\* a stored timer, and the start of a timer for one resource changes the
\* answers for no other resource.
Prop_C29_TimerStore ==
    [][/\ Len(timers') >= Len(timers)
       /\ SubSeq(timers', 1, Len(timers)) = timers
       /\ (op'.name = "timers" /\ op'.seen = Len(started')) =>
             op'.out = Ok(StartedWith(started', op'.resource_id))
       /\ (op'.name = "current_timer" /\ op'.seen = Len(started')) =>
             LET mine == StartedWith(started', op'.resource_id)
             IN  op'.out = Ok(IF mine = << >> THEN None
                              ELSE Some(mine[Len(mine)]))
       /\ timers' # timers =>
             /\ op'.name = "start_timer"
             /\ \A rid \in ResourceIds \ {op'.input.resource_id} :
                   Answers(timers', rid) = Answers(timers, rid)]_vars

\* the timers of 42 have been listed after two of them and one of 7 had
\* been started, the second for another project than the first
Witness_C29 ==
    /\ op.name = "timers"
    /\ op.resource_id = 42
    /\ op.out.tag = "Ok"
    /\ Len(op.out.val) = 2
    /\ op.out.val[1].project_id # op.out.val[2].project_id
    /\ Len(started) = 3

====
